---- MODULE Spec2Model ----
(***************************************************************************)
(* Model of wf/__init__.py: the task famsa_export_task and the workflow    *)
(* famsa_export that wraps it.  One invocation at a time runs through the  *)
(* statements of the task body; the child process started by              *)
(* subprocess.run is a separate actor that terminates (or not) on its own. *)
(***************************************************************************)
EXTENDS Integers, Sequences, FiniteSets, TLC

\* Number of invocations of the task or workflow explored in one behaviour.
MaxInvocations == 2

----------------------------------------------------------------------------
\* Values

\* class GuideTree(Enum): member name -> value
GuideTree ==
    [sl |-> "Single Linkage Tree", upgma |-> "UPGMA", nj |-> "Neighbor Joining Tree"]

\* class DistExport(Enum): member name -> value
DistExport ==
    [dt |-> "Distance Matrix", pid |-> "Pairwise Identity Matrix"]

\* An enum member is the pair (class, member name).
Member(cls, name) == [cls |-> cls, name |-> name]

GuideTreeMembers == {Member("GuideTree", n) : n \in DOMAIN GuideTree}

DistExportMembers == {Member("DistExport", n) : n \in DOMAIN DistExport}

\* m.value
Value(m) == IF m.cls = "GuideTree" THEN GuideTree[m.name] ELSE DistExport[m.name]

NoMember == Member("", "")

\* Objects a caller can pass as gtExport: the annotation is not enforced by
\* the function body, which only reads .value, so members of the module's
\* other enum are accepted as well.
AlgorithmArgs == GuideTreeMembers \cup DistExportMembers

\* Input file handles: a path, whether it is absolute, and whether the handle
\* can be resolved to a local path at all.
InputHandle(path, absolute, ok) == [path |-> path, absolute |-> absolute, ok |-> ok]

NoInput == InputHandle("", FALSE, FALSE)

InputHandles ==
    { InputHandle("/data/adeno_fiber", TRUE, TRUE),
      InputHandle("seqs.fasta", FALSE, TRUE),
      InputHandle("missing.fasta", FALSE, FALSE) }

\* Working directory of the task process.
Cwd == "/root"

\* Base names a caller passes as gtOutput.
OutputNames == {"custom_guide_tree", "tree1", "tree1.dnd"}

\* Exit statuses of the child: success, failure, killed by a signal.
ExitStatuses == {0, 1, -9}

\* LatchFile(local, remote)
LatchFile(local, remote) == [local |-> local, remote |-> remote]

NoHandle == LatchFile("", "")

NoChild == [state |-> "none", argv |-> <<>>, returncode |-> 0, wrote |-> FALSE]

NoArgs == [input |-> NoInput, gtOutput |-> "", gtExport |-> NoMember]

----------------------------------------------------------------------------
\* Pure parts of the task body

\* Defaults of famsa_export_task's parameters.
Task_gtOutput_default == "custom_guide_tree"

Task_gtExport_default_wrong == Member("GuideTree", "upgma")

Task_gtExport_default == Member("GuideTree", "sl")

\* Defaults of famsa_export's parameters.
Workflow_gtOutput_default == "custom_guide_tree"

Workflow_gtExport_default == Member("GuideTree", "sl")

\* Whether Path(input) yields a local path or raises.
ResolveOutcome_swallow(h) == "ok"

ResolveOutcome(h) == IF h.ok THEN "ok" ELSE "raise"

\* Path(input).resolve(): an absolute path is kept, a relative one is joined
\* to the working directory.
Resolve(h) == IF h.absolute THEN h.path ELSE Cwd \o "/" \o h.path

\* gtOutput += '.dnd'
AppendExt_twice(name) == name \o ".dnd" \o ".dnd"

AppendExt(name) == name \o ".dnd"

\* The dict gtOptions and the order in which .keys() iterates it.
gtOptions_chained ==
    ("Single Linkage Tree" :> "UPGMA") @@ ("UPGMA" :> "upgma") @@
    ("Neighbor Joining Tree" :> "nj")

gtOptions ==
    ("Single Linkage Tree" :> "sl") @@ ("UPGMA" :> "upgma") @@
    ("Neighbor Joining Tree" :> "nj")

gtOptionsKeys == <<"Single Linkage Tree", "UPGMA", "Neighbor Joining Tree">>

\* Body of one loop iteration: "if gt == gtValue: gtValue = gtOptions[gt]".
Translate_unconditional(key, value) == gtOptions[key]

Translate(key, value) == IF key = value THEN gtOptions[key] ELSE value

\* The list gt_export_cmd.
GtExportCmd_swapped(value, path, output) ==
    <<"./FAMSA/famsa", "-gt", value, "-gt_export", output, path>>

GtExportCmd(value, path, output) ==
    <<"./FAMSA/famsa", "-gt", value, "-gt_export", path, output>>

\* Where control goes when subprocess.run(gt_export_cmd) returns a completed
\* process with the given return code: the result is discarded and the next
\* statement runs.
AfterRun_checked(returncode) == IF returncode = 0 THEN "return" ELSE "raised"

AfterRun_retry(returncode) == IF returncode = 0 THEN "return" ELSE "run"

AfterRun(returncode) == "return"

\* subprocess.run blocks until the child has exited.
RunReturns_timeout(c) == c.state \in {"running", "exited"}

RunReturns(c) == c.state = "exited"

\* The f-string of the remote destination.
RemotePath_noslash(output) == "latch:///FAMSA-Exports" \o output

RemotePath(output) == "latch:///FAMSA-Exports/" \o output

\* Arguments famsa_export passes on to famsa_export_task.
WorkflowCallArgs(i, o, e) == [input |-> i, gtOutput |-> o, gtExport |-> e]

----------------------------------------------------------------------------
\* State

VARIABLES
    pc,             \* position of the current invocation
    entry,          \* "task" or "workflow": how the invocation was made
    defaulted,      \* the caller supplied only the input file
    wf_args,        \* parameters of famsa_export while its body runs
    input,          \* parameter input
    base,           \* value of parameter gtOutput at entry
    gtOutput,       \* parameter / local gtOutput
    gtExport,       \* parameter gtExport
    input_path,     \* local input_path
    gtValue,        \* local gtValue
    gt,             \* index of the next key the loop visits
    translations,   \* times the loop body has assigned gtValue
    gt_export_cmd,  \* local gt_export_cmd
    child,          \* the child process of this invocation
    spawned,        \* child processes started by this invocation
    result,         \* handle returned by this invocation
    results,        \* log of (base, local, remote) of every handle returned so far
    invocations     \* invocations made so far

vars ==
    <<pc, entry, defaulted, wf_args, input, base, gtOutput, gtExport, input_path,
      gtValue, gt, translations, gt_export_cmd, child, spawned, result, results,
      invocations>>

locals == <<input_path, gtValue, gt, translations, gt_export_cmd>>

Init ==
    /\ pc = "idle"
    /\ entry = "none"
    /\ defaulted = FALSE
    /\ wf_args = NoArgs
    /\ input = NoInput
    /\ base = ""
    /\ gtOutput = ""
    /\ gtExport = NoMember
    /\ input_path = ""
    /\ gtValue = ""
    /\ gt = 0
    /\ translations = 0
    /\ gt_export_cmd = <<>>
    /\ child = NoChild
    /\ spawned = 0
    /\ result = NoHandle
    /\ results = <<>>
    /\ invocations = 0

\* No invocation is in progress.
Quiescent == pc \in {"idle", "completed", "raised"}

\* Entry into famsa_export_task with the given arguments: fresh locals.
EnterTask(i, o, e) ==
    /\ pc' = "resolve"
    /\ input' = i
    /\ base' = o
    /\ gtOutput' = o
    /\ gtExport' = e
    /\ input_path' = ""
    /\ gtValue' = ""
    /\ gt' = 0
    /\ translations' = 0
    /\ gt_export_cmd' = <<>>
    /\ child' = NoChild
    /\ spawned' = 0
    /\ result' = NoHandle

\* famsa_export_task(input, gtOutput, gtExport)
CallTask(i, o, e) ==
    /\ Quiescent
    /\ invocations < MaxInvocations
    /\ invocations' = invocations + 1
    /\ entry' = "task"
    /\ defaulted' = FALSE
    /\ EnterTask(i, o, e)
    /\ UNCHANGED <<wf_args, results>>

\* famsa_export_task(input)
CallTaskDefault(i) ==
    /\ Quiescent
    /\ invocations < MaxInvocations
    /\ invocations' = invocations + 1
    /\ entry' = "task"
    /\ defaulted' = TRUE
    /\ EnterTask(i, Task_gtOutput_default, Task_gtExport_default)
    /\ UNCHANGED <<wf_args, results>>

\* Entry into famsa_export with the given arguments.
EnterWorkflow(i, o, e) ==
    /\ pc' = "workflow"
    /\ entry' = "workflow"
    /\ wf_args' = [input |-> i, gtOutput |-> o, gtExport |-> e]
    /\ input' = NoInput
    /\ base' = ""
    /\ gtOutput' = ""
    /\ gtExport' = NoMember
    /\ input_path' = ""
    /\ gtValue' = ""
    /\ gt' = 0
    /\ translations' = 0
    /\ gt_export_cmd' = <<>>
    /\ child' = NoChild
    /\ spawned' = 0
    /\ result' = NoHandle

\* famsa_export(input, gtOutput, gtExport)
CallWorkflow(i, o, e) ==
    /\ Quiescent
    /\ invocations < MaxInvocations
    /\ invocations' = invocations + 1
    /\ defaulted' = FALSE
    /\ EnterWorkflow(i, o, e)
    /\ UNCHANGED results

\* famsa_export(input)
CallWorkflowDefault(i) ==
    /\ Quiescent
    /\ invocations < MaxInvocations
    /\ invocations' = invocations + 1
    /\ defaulted' = TRUE
    /\ EnterWorkflow(i, Workflow_gtOutput_default, Workflow_gtExport_default)
    /\ UNCHANGED results

\* Body of famsa_export: return famsa_export_task(input=..., gtOutput=..., gtExport=...)
WorkflowBody ==
    /\ pc = "workflow"
    /\ LET a == WorkflowCallArgs(wf_args.input, wf_args.gtOutput, wf_args.gtExport)
       IN  EnterTask(a.input, a.gtOutput, a.gtExport)
    /\ UNCHANGED <<entry, defaulted, wf_args, results, invocations>>

\* input_path = Path(input).resolve()
ResolveInput ==
    /\ pc = "resolve"
    /\ IF ResolveOutcome(input) = "ok"
          THEN /\ input_path' = Resolve(input)
               /\ pc' = "suffix"
          ELSE /\ input_path' = input_path
               /\ pc' = "raised"
    /\ UNCHANGED <<entry, defaulted, wf_args, input, base, gtOutput, gtExport,
                   gtValue, gt, translations, gt_export_cmd, child, spawned,
                   result, results, invocations>>

\* gtOutput += '.dnd'
AppendExtension ==
    /\ pc = "suffix"
    /\ gtOutput' = AppendExt(gtOutput)
    /\ pc' = "lookup"
    /\ UNCHANGED <<entry, defaulted, wf_args, input, base, gtExport, locals,
                   child, spawned, result, results, invocations>>

\* gtOptions = {...}; gtValue = str(gtExport.value); the loop starts.
ReadValue ==
    /\ pc = "lookup"
    /\ gtValue' = Value(gtExport)
    /\ gt' = 1
    /\ pc' = "loop"
    /\ UNCHANGED <<entry, defaulted, wf_args, input, base, gtOutput, gtExport,
                   input_path, translations, gt_export_cmd, child, spawned,
                   result, results, invocations>>

\* One iteration of "for gt in gtOptions.keys()".
LoopIteration ==
    /\ pc = "loop"
    /\ gt <= Len(gtOptionsKeys)
    /\ gtValue' = Translate(gtOptionsKeys[gt], gtValue)
    /\ translations' = IF gtOptionsKeys[gt] = gtValue THEN translations + 1
                                                       ELSE translations
    /\ gt' = gt + 1
    /\ UNCHANGED <<pc, entry, defaulted, wf_args, input, base, gtOutput, gtExport,
                   input_path, gt_export_cmd, child, spawned, result, results,
                   invocations>>

\* The loop is exhausted; gt_export_cmd = [...]
BuildCommand ==
    /\ pc = "loop"
    /\ gt > Len(gtOptionsKeys)
    /\ gt_export_cmd' = GtExportCmd(gtValue, input_path, gtOutput)
    /\ pc' = "run"
    /\ UNCHANGED <<entry, defaulted, wf_args, input, base, gtOutput, gtExport,
                   input_path, gtValue, gt, translations, child, spawned, result,
                   results, invocations>>

\* subprocess.run(gt_export_cmd) starts the child and blocks on it.
SpawnChild ==
    /\ pc = "run"
    /\ child' = [state |-> "running", argv |-> gt_export_cmd, returncode |-> 0,
                 wrote |-> FALSE]
    /\ spawned' = spawned + 1
    /\ pc' = "wait"
    /\ UNCHANGED <<entry, defaulted, wf_args, input, base, gtOutput, gtExport,
                   locals, result, results, invocations>>

\* subprocess.run(gt_export_cmd) cannot start the child (the executable is
\* missing or not executable): the OSError propagates.
SpawnFails ==
    /\ pc = "run"
    /\ pc' = "raised"
    /\ UNCHANGED <<entry, defaulted, wf_args, input, base, gtOutput, gtExport,
                   locals, child, spawned, result, results, invocations>>

\* The child process terminates with some exit status, having written the
\* output file or not.  Nothing forces it to happen.
ChildExits(rc, wrote) ==
    /\ child.state = "running"
    /\ child' = [child EXCEPT !.state = "exited", !.returncode = rc, !.wrote = wrote]
    /\ UNCHANGED <<pc, entry, defaulted, wf_args, input, base, gtOutput, gtExport,
                   locals, spawned, result, results, invocations>>

\* subprocess.run returns; its CompletedProcess is discarded.
RunCompletes ==
    /\ pc = "wait"
    /\ RunReturns(child)
    /\ pc' = AfterRun(child.returncode)
    /\ UNCHANGED <<entry, defaulted, wf_args, input, base, gtOutput, gtExport,
                   locals, child, spawned, result, results, invocations>>

\* return LatchFile(str(gtOutput), f"latch:///FAMSA-Exports/{gtOutput}")
ReturnHandle ==
    /\ pc = "return"
    /\ result' = LatchFile(gtOutput, RemotePath(gtOutput))
    /\ results' = Append(results,
                    [base |-> base, local |-> gtOutput, remote |-> RemotePath(gtOutput)])
    /\ pc' = "completed"
    /\ UNCHANGED <<entry, defaulted, wf_args, input, base, gtOutput, gtExport,
                   locals, child, spawned, invocations>>

\* Steps the task process takes by itself.
TaskStep ==
    \/ WorkflowBody
    \/ ResolveInput
    \/ AppendExtension
    \/ ReadValue
    \/ LoopIteration
    \/ BuildCommand
    \/ SpawnChild
    \/ SpawnFails
    \/ RunCompletes
    \/ ReturnHandle

Next ==
    \/ \E i \in InputHandles, o \in OutputNames, e \in AlgorithmArgs : CallTask(i, o, e)
    \/ \E i \in InputHandles : CallTaskDefault(i)
    \/ \E i \in InputHandles, o \in OutputNames, e \in AlgorithmArgs : CallWorkflow(i, o, e)
    \/ \E i \in InputHandles : CallWorkflowDefault(i)
    \/ TaskStep
    \/ \E rc \in ExitStatuses, w \in BOOLEAN : ChildExits(rc, w)

Spec == Init /\ [][Next]_vars

\* The task process keeps running its own statements; the child is under no
\* obligation to terminate and callers are under no obligation to call.
FairSpec == Spec /\ WF_vars(TaskStep)

----------------------------------------------------------------------------
\* The three states of the task's state machine, plus failure by a
\* propagated exception, as seen from the position of the invocation.
TaskState ==
    CASE pc \in {"resolve", "suffix", "lookup", "loop", "run"} -> "NotStarted"
      [] pc \in {"wait", "return"} -> "Running"
      [] pc = "completed" -> "Completed"
      [] pc = "raised" -> "Raised"
      [] OTHER -> "None"

----------------------------------------------------------------------------
\* Properties

\* The loop has visited every key of gtOptions in this invocation.
LoopDone == gt > Len(gtOptionsKeys)

\* The task body has passed "gtOutput += '.dnd'" in this invocation.
Suffixed == pc \in {"lookup", "loop", "run", "wait", "return", "completed"}

\* gtValue has been read from gtExport.value in this invocation.
ValueRead == pc \in {"loop", "run", "wait", "return", "completed"}

\* C1: for each of the three GuideTree members, once the loop has run to its
\* end gtValue is the member's short code ('sl', 'upgma', 'nj'), the loop body
\* has assigned gtValue exactly once, and the three codes are distinct.
C1_TranslationTable ==
    /\ (LoopDone /\ gtExport \in GuideTreeMembers) =>
          /\ gtExport = Member("GuideTree", "sl") => gtValue = "sl"
          /\ gtExport = Member("GuideTree", "upgma") => gtValue = "upgma"
          /\ gtExport = Member("GuideTree", "nj") => gtValue = "nj"
          /\ translations = 1
    /\ translations <= 1
    /\ Cardinality({gtOptions[GuideTree[n]] : n \in DOMAIN GuideTree}) = 3

C1_Witness ==
    /\ pc = "completed"
    /\ gtExport = Member("GuideTree", "nj")
    /\ gtValue = "nj"
    /\ translations = 1

\* C2: the output filename is the base name followed by '.dnd' exactly once,
\* in the running invocation and in every handle returned so far, so equal
\* base names always give equal filenames.
C2_FilenameOnce ==
    /\ Suffixed => (gtOutput = base \o ".dnd" /\ Len(gtOutput) = Len(base) + 4)
    /\ \A k \in DOMAIN results :
          /\ results[k].local = results[k].base \o ".dnd"
          /\ Len(results[k].local) = Len(results[k].base) + 4
    /\ \A j, k \in DOMAIN results :
          results[j].base = results[k].base => results[j].local = results[k].local

C2_Witness ==
    /\ Len(results) = 2
    /\ results[1].base = "tree1.dnd"
    /\ results[2].base = "tree1.dnd"
    /\ results[2].local = "tree1.dnd.dnd"

\* C3: the child is started with ['./FAMSA/famsa', '-gt', code, '-gt_export',
\* resolved input path, output filename]; with UPGMA and base name 'tree1' a
\* completed invocation has started one child, with code 'upgma' and last
\* argument 'tree1.dnd', and returned a handle whose filename is 'tree1.dnd'.
C3_ArgumentList ==
    /\ child.state # "none" =>
          /\ LoopDone
          /\ input_path = Resolve(input)
          /\ child.argv =
                <<"./FAMSA/famsa", "-gt", gtValue, "-gt_export", input_path, gtOutput>>
    /\ (pc = "completed" /\ gtExport = Member("GuideTree", "upgma") /\ base = "tree1") =>
          /\ spawned = 1
          /\ Len(child.argv) = 6
          /\ child.argv[3] = "upgma"
          /\ child.argv[6] = "tree1.dnd"
          /\ result.local = "tree1.dnd"

C3_Witness ==
    /\ pc = "completed"
    /\ gtExport = Member("GuideTree", "upgma")
    /\ base = "tree1"
    /\ input.path = "seqs.fasta"
    /\ child.argv[5] = "/root/seqs.fasta"

\* C4: once a child has been started no exception state is reachable, and
\* whatever the child's exit status and whether or not it wrote its output,
\* the task goes on to return a handle.
C4_ExitStatusIgnored ==
    /\ [](spawned > 0 => pc # "raised")
    /\ \A rc \in ExitStatuses, w \in BOOLEAN :
          (pc = "wait" /\ child.state = "exited" /\ child.returncode = rc /\ child.wrote = w)
            ~> (pc = "completed" /\ result # NoHandle /\ child.returncode = rc)

C4_Witness ==
    /\ pc = "completed"
    /\ result # NoHandle
    /\ child.returncode = 1
    /\ ~child.wrote

\* C5: a label that is no key of gtOptions passes through the loop unchanged,
\* the loop raises nothing, and the child receives the label after '-gt'.
C5_UnknownLabel ==
    /\ (ValueRead /\ Value(gtExport) \notin DOMAIN gtOptions) =>
          /\ gtValue = Value(gtExport)
          /\ translations = 0
          /\ child.state # "none" => child.argv[3] = Value(gtExport)
    /\ pc = "raised" => (input_path = "" \/ LoopDone)

C5_Witness ==
    /\ child.state = "running"
    /\ gtExport = Member("DistExport", "dt")
    /\ child.argv[2] = "-gt"
    /\ child.argv[3] = "Distance Matrix"

\* C6: when the caller supplies only the input file, the child receives code
\* 'sl' and output filename 'custom_guide_tree.dnd', and the returned handle
\* has that filename.
C6_Defaults ==
    /\ (defaulted /\ child.state # "none") =>
          (child.argv[3] = "sl" /\ child.argv[6] = "custom_guide_tree.dnd")
    /\ (defaulted /\ pc = "completed") => result.local = "custom_guide_tree.dnd"

C6_Witness ==
    /\ defaulted
    /\ entry = "workflow"
    /\ pc = "completed"
    /\ \E k \in DOMAIN results : results[k].base = "custom_guide_tree"

\* C7: the returned handle's local path is the last argument given to the
\* child and its remote destination is 'latch:///FAMSA-Exports/' followed by
\* that argument; equal base names give equal remote destinations.
C7_HandlePaths ==
    /\ pc = "completed" =>
          /\ result.local = child.argv[Len(child.argv)]
          /\ result.remote = "latch:///FAMSA-Exports/" \o child.argv[Len(child.argv)]
    /\ \A k \in DOMAIN results :
          results[k].remote = "latch:///FAMSA-Exports/" \o results[k].base \o ".dnd"
    /\ \A j, k \in DOMAIN results :
          results[j].base = results[k].base => results[j].remote = results[k].remote

C7_Witness ==
    /\ pc = "completed"
    /\ Len(results) = 2
    /\ results[1].base = "tree1"
    /\ results[2].base = "tree1"
    /\ results[1].remote = "latch:///FAMSA-Exports/tree1.dnd"
    /\ result.remote = results[1].remote

\* C8: when the input handle does not resolve, the invocation ends in the
\* exception state right after the resolution step, with no child started
\* and no handle returned.
C8_UnresolvableInput ==
    (pc \notin {"idle", "workflow", "resolve"} /\ ~input.ok) =>
        /\ pc = "raised"
        /\ spawned = 0
        /\ child.state = "none"
        /\ result = NoHandle
        /\ gt_export_cmd = <<>>

C8_Witness ==
    /\ pc = "raised"
    /\ input = InputHandle("missing.fasta", FALSE, FALSE)
    /\ spawned = 0

\* C9 as stated: an invocation is only ever Not Started, Running or
\* Completed, and an invocation that has ended has spawned exactly one child.
C9_Original ==
    /\ TaskState \in {"None", "NotStarted", "Running", "Completed"}
    /\ pc \in {"completed", "raised"} => spawned = 1

\* States an invocation may move to from each state.
Successors(s) ==
    CASE s = "None" -> {"None", "NotStarted"}
      [] s = "NotStarted" -> {"NotStarted", "Running", "Raised"}
      [] s = "Running" -> {"Running", "Completed"}
      [] s = "Completed" -> {"Completed", "None", "NotStarted"}
      [] s = "Raised" -> {"Raised", "None", "NotStarted"}

\* C9 amended: an invocation goes Not Started -> Running -> Completed, or
\* ends from Not Started by a propagated exception before any child has been
\* started; at most one child is spawned, exactly one in a completed
\* invocation, and a handle exists only once the child has exited.
C9_Amended ==
    /\ [][TaskState' \in Successors(TaskState)]_vars
    /\ [](spawned <= 1)
    /\ [](TaskState = "Raised" => (spawned = 0 /\ result = NoHandle))
    /\ [](TaskState = "Running" => spawned = 1)
    /\ [](TaskState = "Completed" =>
            (spawned = 1 /\ child.state = "exited" /\ result # NoHandle))
    /\ [](result # NoHandle => TaskState = "Completed")

C9_Witness ==
    /\ pc = "completed"
    /\ spawned = 1
    /\ child.state = "exited"
    /\ invocations = 2
    /\ Len(results) = 1

\* C10: the task leaves the blocking call only after the child has exited,
\* so it stays there as long as the child runs; once the child has exited,
\* with any outcome, the task completes.
C10_ReturnsIffChildTerminates ==
    /\ [][(pc = "wait" /\ child.state = "running") => pc' = "wait"]_vars
    /\ [](pc \in {"return", "completed"} => child.state = "exited")
    /\ (child.state = "exited" /\ pc = "wait") ~> (pc = "completed")

C10_Witness ==
    /\ pc = "completed"
    /\ child.state = "exited"
    /\ child.returncode = -9
    /\ result # NoHandle

====
